---- MODULE Spec2Model ----
(***************************************************************************)
(* Model of openwhoop's command line driver (src/openwhoop/src/main.rs):   *)
(* the Scan, DownloadHistory and ReRun subcommands and scan_command.       *)
(***************************************************************************)
EXTENDS Integers, Sequences, FiniteSets, TLC

(* ---------------------------- bounds ----------------------------------- *)
\* longest advertisement list one poll of the adapter returns
MaxPeripherals == 2
\* most packets already in the store when the program starts
MaxStore == 3
\* most packets the device streams during one sync_history
MaxStream == 3
\* most is_connected checks that report "not connected" before one reports true
MaxR == 2
\* page size of DatabaseHandler::get_packets
PageSize == 2

(* ---------------------------- values ----------------------------------- *)
Addrs == {"A1", "A2"}
NoTarget == "None"
WHOOP_SERVICE == "whoop"
OTHER_SERVICE == "other"
\* payload "bad" is one the packet processor cannot decode
Payloads == {"ok", "bad"}
NoPeripheral == [address |-> "None", services |-> {}, properties |-> "none"]

\* what the adapter can list: a peripheral, the services it advertises and
\* what peripheral.properties() answers for it (Some, None, or an error)
PeripheralSet ==
    [address : Addrs,
     services : {{OTHER_SERVICE}, {WHOOP_SERVICE, OTHER_SERVICE}},
     properties : {"some", "none", "err"}]

RECURSIVE SeqsUpTo(_, _)
SeqsUpTo(S, n) ==
    IF n = 0 THEN {<<>>}
    ELSE LET shorter == SeqsUpTo(S, n - 1)
         IN shorter \cup {Append(s, x) : s \in {t \in shorter : Len(t) = n - 1}, x \in S}

\* the store assigns ids 1, 2, 3, ... in append order
RECURSIVE MkStore(_)
MkStore(payloads) ==
    IF payloads = <<>> THEN <<>>
    ELSE LET n == Len(payloads)
         IN Append(MkStore(SubSeq(payloads, 1, n - 1)), [id |-> n, payload |-> payloads[n]])

VARIABLES
    cmd,          \* cli.subcommand
    target,       \* peripheral_addr handed to scan_command
    pc,           \* position of main / scan_command
    result,       \* what main returned: "none" while running, "ok", or the
                  \* call whose error `?` propagated
    scanning,     \* the adapter is scanning (start_scan was issued)
    peripherals,  \* the list the last adapter.peripherals() returned
    printed,      \* addresses printed by the last poll
    peripheral,   \* the Peripheral scan_command returned (held by whoop)
    discoveries,  \* number of scan_command calls
    link,         \* calls made on whoop, as counters
    R,            \* is_connected reports not-connected on the first R checks
    lastCheck,    \* outcome of the last is_connected: "none","true","false","err"
    syncResult,   \* what sync_history returned: "none", "ok", "err"
    logged,       \* number of error! lines written
    received,     \* payloads the device streamed in this session, in arrival order
    store,        \* the packet store (packets table)
    store0,       \* the store as it was when the program started
    id,           \* ReRun: let mut id
    packets,      \* ReRun: rest of the page being iterated
    processed,    \* ReRun: packets handed to handle_packet, in order
    derived,      \* ReRun: records written by the packet processor
    failedAt,     \* ReRun: id of the packet handle_packet failed on, 0 if none
    run,          \* ReRun: 1 for the first invocation, 2 for the second
    prev          \* ReRun: processed/derived/result of the first invocation

vars == <<cmd, target, pc, result, scanning, peripherals, printed, peripheral,
          discoveries, link, R, lastCheck, syncResult, logged, received, store,
          store0, id, packets, processed, derived, failedAt, run, prev>>

scanVars == <<scanning, peripherals, printed, peripheral, discoveries>>
sessionVars == <<link, R, lastCheck, syncResult, logged, received>>
rerunVars == <<id, packets, processed, derived, failedAt, run, prev>>

\* connect/initialize/sync: calls of lines 114, 115, 117 (and how many failed);
\* checks, reconnects, sleeps, sends: calls made by the terminate loop;
\* reconnectFail: loop connects that failed;
\* delivered: sends that succeeded; disc: is_connected calls that did not
\* return Ok(true); stale: calls made on the handle after such a check
NoLink == [connect |-> 0, connectFail |-> 0, initialize |-> 0, initFail |-> 0,
           sync |-> 0, checks |-> 0, disc |-> 0, reconnects |-> 0,
           reconnectFail |-> 0, sleeps |-> 0, sends |-> 0, delivered |-> 0,
           stale |-> 0]
NoPrev == [processed |-> <<>>, derived |-> <<>>, result |-> "none"]
IsErr(r) == r \notin {"none", "ok"}

Init ==
    /\ cmd \in {"Scan", "DownloadHistory", "ReRun"}
    /\ target \in (IF cmd = "DownloadHistory" THEN Addrs ELSE {NoTarget})
    /\ pc = "start"
    /\ result = "none"
    /\ scanning = FALSE
    /\ peripherals = <<>>
    /\ printed = <<>>
    /\ peripheral = NoPeripheral
    /\ discoveries = 0
    /\ link = NoLink
    /\ R = 0
    /\ lastCheck = "none"
    /\ syncResult = "none"
    /\ logged = 0
    /\ received = <<>>
    /\ store \in {MkStore(p) : p \in SeqsUpTo(Payloads, MaxStore)}
    /\ store0 = store
    /\ id = 0
    /\ packets = <<>>
    /\ processed = <<>>
    /\ derived = <<>>
    /\ failedAt = 0
    /\ run = 1
    /\ prev = NoPrev

\* main returns: Ok(()) or the error propagated by `?`
Finish(r) ==
    /\ pc' = "done"
    /\ result' = r

(* ---------------------------- scan_command ----------------------------- *)
\* the for loop without the service test of line 231
RECURSIVE ScanPeripherals_nofilter(_, _, _)
ScanPeripherals_nofilter(ps, addr, out) ==
    IF ps = <<>> THEN [kind |-> "none", peripheral |-> NoPeripheral, printed |-> out]
    ELSE LET p == Head(ps) IN
         IF p.properties = "err"
         THEN [kind |-> "err", peripheral |-> NoPeripheral, printed |-> out]
         ELSE IF p.properties = "none" THEN ScanPeripherals_nofilter(Tail(ps), addr, out)
         ELSE IF addr = NoTarget
         THEN ScanPeripherals_nofilter(Tail(ps), addr, Append(out, p.address))
         ELSE IF p.address = addr
         THEN [kind |-> "found", peripheral |-> p, printed |-> out]
         ELSE ScanPeripherals_nofilter(Tail(ps), addr, out)

\* the for loop without the address comparison of line 243
RECURSIVE ScanPeripherals_anyaddr(_, _, _)
ScanPeripherals_anyaddr(ps, addr, out) ==
    IF ps = <<>> THEN [kind |-> "none", peripheral |-> NoPeripheral, printed |-> out]
    ELSE LET p == Head(ps) IN
         IF p.properties = "err"
         THEN [kind |-> "err", peripheral |-> NoPeripheral, printed |-> out]
         ELSE IF p.properties = "none" THEN ScanPeripherals_anyaddr(Tail(ps), addr, out)
         ELSE IF WHOOP_SERVICE \notin p.services
         THEN ScanPeripherals_anyaddr(Tail(ps), addr, out)
         ELSE IF addr = NoTarget
         THEN ScanPeripherals_anyaddr(Tail(ps), addr, Append(out, p.address))
         ELSE [kind |-> "found", peripheral |-> p, printed |-> out]

\* the for loop over one advertisement list
RECURSIVE ScanPeripherals(_, _, _)
ScanPeripherals(ps, addr, out) ==
    IF ps = <<>> THEN [kind |-> "none", peripheral |-> NoPeripheral, printed |-> out]
    ELSE LET p == Head(ps) IN
         IF p.properties = "err"
         THEN [kind |-> "err", peripheral |-> NoPeripheral, printed |-> out]
         ELSE IF p.properties = "none" THEN ScanPeripherals(Tail(ps), addr, out)
         ELSE IF WHOOP_SERVICE \notin p.services THEN ScanPeripherals(Tail(ps), addr, out)
         ELSE IF addr = NoTarget THEN ScanPeripherals(Tail(ps), addr, Append(out, p.address))
         ELSE IF p.address = addr
         THEN [kind |-> "found", peripheral |-> p, printed |-> out]
         ELSE ScanPeripherals(Tail(ps), addr, out)

\* main dispatches on the subcommand
Dispatch ==
    /\ pc = "start"
    /\ pc' = (IF cmd = "ReRun" THEN "get_packets" ELSE "start_scan")
    /\ discoveries' = (IF cmd = "ReRun" THEN discoveries ELSE discoveries + 1)
    /\ UNCHANGED <<cmd, target, result, scanning, peripherals, printed, peripheral,
                   store, store0>>
    /\ UNCHANGED sessionVars
    /\ UNCHANGED rerunVars

StartScanOk ==
    /\ pc = "start_scan"
    /\ scanning' = TRUE
    /\ pc' = "poll"
    /\ UNCHANGED <<cmd, target, result, peripherals, printed, peripheral, discoveries,
                   store, store0>>
    /\ UNCHANGED sessionVars
    /\ UNCHANGED rerunVars

StartScanErr ==
    /\ pc = "start_scan"
    /\ Finish("start_scan")
    /\ UNCHANGED <<cmd, target, store, store0>>
    /\ UNCHANGED scanVars
    /\ UNCHANGED sessionVars
    /\ UNCHANGED rerunVars

\* one pass of the loop body: list the peripherals and walk the list
Poll ==
    /\ pc = "poll"
    /\ \E ps \in SeqsUpTo(PeripheralSet, MaxPeripherals) :
         LET r == ScanPeripherals(ps, target, <<>>) IN
           /\ printed' = r.printed
           /\ IF r.kind = "found"
              THEN /\ peripheral' = r.peripheral
                   /\ peripherals' = ps
                   /\ pc' = "new_device"
                   /\ result' = result
              ELSE IF r.kind = "err"
              THEN /\ peripheral' = peripheral
                   /\ peripherals' = ps
                   /\ Finish("properties")
              ELSE /\ peripheral' = peripheral
                   /\ peripherals' = ps
                   /\ pc' = "scan_sleep"
                   /\ result' = result
    /\ UNCHANGED <<cmd, target, scanning, discoveries, store, store0>>
    /\ UNCHANGED sessionVars
    /\ UNCHANGED rerunVars

\* adapter.peripherals() fails
PollErr ==
    /\ pc = "poll"
    /\ Finish("peripherals")
    /\ UNCHANGED <<cmd, target, store, store0>>
    /\ UNCHANGED scanVars
    /\ UNCHANGED sessionVars
    /\ UNCHANGED rerunVars

\* the list was consumed by the for loop; sleep, then the next iteration
ScanSleep ==
    /\ pc = "scan_sleep"
    /\ peripherals' = <<>>
    /\ pc' = "poll"
    /\ UNCHANGED <<cmd, target, result, store, store0, scanning, printed, peripheral,
                   discoveries>>
    /\ UNCHANGED sessionVars
    /\ UNCHANGED rerunVars

(* ---------------------------- DownloadHistory -------------------------- *)
\* scan_command has returned Ok(peripheral), its locals are gone;
\* let mut whoop = WhoopDevice::new(peripheral, db_handler)
NewDevice ==
    /\ pc = "new_device"
    /\ peripherals' = <<>>
    /\ printed' = <<>>
    /\ pc' = "connect"
    /\ UNCHANGED <<cmd, target, result, scanning, peripheral, discoveries, store, store0>>
    /\ UNCHANGED sessionVars
    /\ UNCHANGED rerunVars

\* after connect, initialize is left out
ConnectOk_skipinit ==
    /\ pc = "connect"
    /\ link' = [link EXCEPT !.connect = @ + 1]
    /\ pc' = "sync"
    /\ UNCHANGED <<cmd, target, result, store, store0, R, lastCheck, syncResult,
                   logged, received>>
    /\ UNCHANGED scanVars
    /\ UNCHANGED rerunVars

\* whoop.connect().await? of line 114
ConnectOk ==
    /\ pc = "connect"
    /\ link' = [link EXCEPT !.connect = @ + 1]
    /\ pc' = "initialize"
    /\ UNCHANGED <<cmd, target, result, store, store0, R, lastCheck, syncResult,
                   logged, received>>
    /\ UNCHANGED scanVars
    /\ UNCHANGED rerunVars

ConnectErr ==
    /\ pc = "connect"
    /\ link' = [link EXCEPT !.connect = @ + 1, !.connectFail = @ + 1]
    /\ Finish("connect")
    /\ UNCHANGED <<cmd, target, store, store0, R, lastCheck, syncResult, logged, received>>
    /\ UNCHANGED scanVars
    /\ UNCHANGED rerunVars

\* whoop.initialize().await?
InitializeOk ==
    /\ pc = "initialize"
    /\ link' = [link EXCEPT !.initialize = @ + 1]
    /\ pc' = "sync"
    /\ UNCHANGED <<cmd, target, result, store, store0, R, lastCheck, syncResult,
                   logged, received>>
    /\ UNCHANGED scanVars
    /\ UNCHANGED rerunVars

\* initialize's error dropped instead of propagated
InitializeErr_ignored ==
    /\ pc = "initialize"
    /\ link' = [link EXCEPT !.initialize = @ + 1, !.initFail = @ + 1]
    /\ pc' = "sync"
    /\ UNCHANGED <<cmd, target, result, store, store0, R, lastCheck, syncResult,
                   logged, received>>
    /\ UNCHANGED scanVars
    /\ UNCHANGED rerunVars

InitializeErr ==
    /\ pc = "initialize"
    /\ link' = [link EXCEPT !.initialize = @ + 1, !.initFail = @ + 1]
    /\ Finish("initialize")
    /\ UNCHANGED <<cmd, target, store, store0, R, lastCheck, syncResult, logged, received>>
    /\ UNCHANGED scanVars
    /\ UNCHANGED rerunVars

\* sync_history is entered: the start-streaming command is issued
SyncStart ==
    /\ pc = "sync"
    /\ link' = [link EXCEPT !.sync = @ + 1]
    /\ pc' = "streaming"
    /\ UNCHANGED <<cmd, target, result, store, store0, R, lastCheck, syncResult,
                   logged, received>>
    /\ UNCHANGED scanVars
    /\ UNCHANGED rerunVars

\* Packet Store append: the next id, gap-free
StoreAppend(s, payload) == Append(s, [id |-> Len(s) + 1, payload |-> payload])

\* inside sync_history: one notification arrives and is appended to the store
SyncAppend ==
    /\ pc = "streaming"
    /\ Len(received) < MaxStream
    /\ \E payload \in Payloads :
         /\ received' = Append(received, payload)
         /\ store' = StoreAppend(store, payload)
    /\ UNCHANGED <<cmd, target, pc, result, store0, link, R, lastCheck, syncResult, logged>>
    /\ UNCHANGED scanVars
    /\ UNCHANGED rerunVars

\* sync_history returns Ok (end of history); the transport will answer the
\* terminate loop's first r is_connected checks with "not connected"
SyncOk ==
    /\ pc = "streaming"
    /\ syncResult' = "ok"
    /\ \E r \in 0..MaxR : R' = r
    /\ pc' = "check"
    /\ UNCHANGED <<cmd, target, result, store, store0, link, lastCheck, logged, received>>
    /\ UNCHANGED scanVars
    /\ UNCHANGED rerunVars

\* sync_history's error propagated with `?`
SyncErr_fatal ==
    /\ pc = "streaming"
    /\ syncResult' = "err"
    /\ logged' = logged + 1
    /\ R' = R
    /\ Finish("sync_history")
    /\ UNCHANGED <<cmd, target, store, store0, link, lastCheck, received>>
    /\ UNCHANGED scanVars
    /\ UNCHANGED rerunVars

\* a failed sync_history discards what it captured
SyncErr_rollback ==
    /\ pc = "streaming"
    /\ syncResult' = "err"
    /\ logged' = logged + 1
    /\ \E r \in 0..MaxR : R' = r
    /\ pc' = "check"
    /\ store' = store0
    /\ UNCHANGED <<cmd, target, result, store0, link, lastCheck, received>>
    /\ UNCHANGED scanVars
    /\ UNCHANGED rerunVars

\* sync_history returns Err (the link dropped mid-stream, or any other
\* failure): the error is logged and main goes on to the terminate loop
SyncErr ==
    /\ pc = "streaming"
    /\ syncResult' = "err"
    /\ logged' = logged + 1
    /\ \E r \in 0..MaxR : R' = r
    /\ pc' = "check"
    /\ UNCHANGED <<cmd, target, result, store, store0, link, lastCheck, received>>
    /\ UNCHANGED scanVars
    /\ UNCHANGED rerunVars

\* a call on the handle counts as stale once an is_connected on it did not
\* return Ok(true)
Stale == IF link.disc > 0 THEN 1 ELSE 0

\* if let Ok(true) = whoop.is_connected().await
IsConnectedTrue ==
    /\ pc = "check"
    /\ link.checks >= R
    /\ link' = [link EXCEPT !.checks = @ + 1]
    /\ lastCheck' = "true"
    /\ pc' = "send"
    /\ UNCHANGED <<cmd, target, result, store, store0, R, syncResult, logged, received>>
    /\ UNCHANGED scanVars
    /\ UNCHANGED rerunVars

\* an is_connected error propagated as the session's result
IsConnectedNot_errfatal ==
    /\ pc = "check"
    /\ link.checks < R
    /\ link' = [link EXCEPT !.checks = @ + 1, !.disc = @ + 1]
    /\ \E o \in {"false", "err"} :
         /\ lastCheck' = o
         /\ IF o = "err"
            THEN Finish("is_connected")
            ELSE pc' = "reconnect" /\ result' = result
    /\ UNCHANGED <<cmd, target, store, store0, R, syncResult, logged, received>>
    /\ UNCHANGED scanVars
    /\ UNCHANGED rerunVars

\* is_connected returns Ok(false) or Err(_): the else branch
IsConnectedNot ==
    /\ pc = "check"
    /\ link.checks < R
    /\ link' = [link EXCEPT !.checks = @ + 1, !.disc = @ + 1]
    /\ \E o \in {"false", "err"} : lastCheck' = o
    /\ pc' = "reconnect"
    /\ UNCHANGED <<cmd, target, result, store, store0, R, syncResult, logged, received>>
    /\ UNCHANGED scanVars
    /\ UNCHANGED rerunVars

\* whoop.send_command(WhoopPacket::exit_high_freq_sync()).await?; break; Ok(())
SendOk ==
    /\ pc = "send"
    /\ link' = [link EXCEPT !.sends = @ + 1, !.delivered = @ + 1, !.stale = @ + Stale]
    /\ Finish("ok")
    /\ UNCHANGED <<cmd, target, store, store0, R, lastCheck, syncResult, logged, received>>
    /\ UNCHANGED scanVars
    /\ UNCHANGED rerunVars

\* send_command's error dropped: main returns Ok(())
SendErr_swallowed ==
    /\ pc = "send"
    /\ link' = [link EXCEPT !.sends = @ + 1, !.stale = @ + Stale]
    /\ Finish("ok")
    /\ UNCHANGED <<cmd, target, store, store0, R, lastCheck, syncResult, logged, received>>
    /\ UNCHANGED scanVars
    /\ UNCHANGED rerunVars

\* a failed send is followed by another round of the loop
SendErr_retry ==
    /\ pc = "send"
    /\ link' = [link EXCEPT !.sends = @ + 1, !.stale = @ + Stale]
    /\ pc' = "reconnect"
    /\ UNCHANGED <<cmd, target, result, store, store0, R, lastCheck, syncResult,
                   logged, received>>
    /\ UNCHANGED scanVars
    /\ UNCHANGED rerunVars

SendErr ==
    /\ pc = "send"
    /\ link' = [link EXCEPT !.sends = @ + 1, !.stale = @ + Stale]
    /\ Finish("send_command")
    /\ UNCHANGED <<cmd, target, store, store0, R, lastCheck, syncResult, logged, received>>
    /\ UNCHANGED scanVars
    /\ UNCHANGED rerunVars

\* reconnecting by a fresh discovery instead of on the held handle
ReconnectOk_rediscover ==
    /\ pc = "reconnect"
    /\ link' = [link EXCEPT !.reconnects = @ + 1]
    /\ peripheral' = NoPeripheral
    /\ discoveries' = discoveries + 1
    /\ pc' = "backoff"
    /\ UNCHANGED <<cmd, target, result, store, store0, R, lastCheck, syncResult,
                   logged, received, scanning, peripherals, printed>>
    /\ UNCHANGED rerunVars

\* the loop goes back to is_connected without the sleep
ReconnectOk_nosleep ==
    /\ pc = "reconnect"
    /\ link' = [link EXCEPT !.reconnects = @ + 1, !.stale = @ + Stale]
    /\ pc' = "check"
    /\ UNCHANGED <<cmd, target, result, store, store0, R, lastCheck, syncResult,
                   logged, received>>
    /\ UNCHANGED scanVars
    /\ UNCHANGED rerunVars

\* whoop.connect().await? of line 129, on the handle the session already holds
ReconnectOk ==
    /\ pc = "reconnect"
    /\ link' = [link EXCEPT !.reconnects = @ + 1, !.stale = @ + Stale]
    /\ pc' = "backoff"
    /\ UNCHANGED <<cmd, target, result, store, store0, R, lastCheck, syncResult,
                   logged, received>>
    /\ UNCHANGED scanVars
    /\ UNCHANGED rerunVars

ReconnectErr ==
    /\ pc = "reconnect"
    /\ link' = [link EXCEPT !.reconnects = @ + 1, !.reconnectFail = @ + 1,
                            !.stale = @ + Stale]
    /\ Finish("reconnect")
    /\ UNCHANGED <<cmd, target, store, store0, R, lastCheck, syncResult, logged, received>>
    /\ UNCHANGED scanVars
    /\ UNCHANGED rerunVars

\* sleep(Duration::from_secs(1)).await, then back to the top of the loop
Backoff ==
    /\ pc = "backoff"
    /\ link' = [link EXCEPT !.sleeps = @ + 1]
    /\ pc' = "check"
    /\ UNCHANGED <<cmd, target, result, store, store0, R, lastCheck, syncResult,
                   logged, received>>
    /\ UNCHANGED scanVars
    /\ UNCHANGED rerunVars

(* ---------------------------- ReRun ------------------------------------ *)
RECURSIVE SelectAfter(_, _)
SelectAfter(s, c) ==
    IF s = <<>> THEN <<>>
    ELSE IF Head(s).id > c THEN <<Head(s)>> \o SelectAfter(Tail(s), c)
    ELSE SelectAfter(Tail(s), c)

\* Packet Store read_from(id, limit): the packets with id > c, ascending, at
\* most PageSize of them
ReadFrom(s, c) ==
    LET after == SelectAfter(s, c)
    IN IF Len(after) <= PageSize THEN after ELSE SubSeq(after, 1, PageSize)

\* Packet Processor: whether process(packet) succeeds, and the record it writes
Decodable(packet) == packet.payload # "bad"
Derive(packet) == [from |-> packet.id, value |-> <<"decoded", packet.payload>>]

\* db_handler.get_packets(id).await? returns a non-empty page
GetPacketsPage ==
    /\ pc = "get_packets"
    /\ ReadFrom(store, id) # <<>>
    /\ packets' = ReadFrom(store, id)
    /\ pc' = "handle"
    /\ UNCHANGED <<cmd, target, result, store, store0, id, processed, derived,
                   failedAt, run, prev>>
    /\ UNCHANGED scanVars
    /\ UNCHANGED sessionVars

\* an empty page does not end the loop
GetPacketsEmpty_spin ==
    /\ pc = "get_packets"
    /\ ReadFrom(store, id) = <<>>
    /\ packets' = <<>>
    /\ pc' = "print"
    /\ UNCHANGED <<cmd, target, result, store, store0, id, processed, derived,
                   failedAt, run, prev>>
    /\ UNCHANGED scanVars
    /\ UNCHANGED sessionVars

\* packets.is_empty(): break; Ok(())
GetPacketsEmpty ==
    /\ pc = "get_packets"
    /\ ReadFrom(store, id) = <<>>
    /\ packets' = <<>>
    /\ Finish("ok")
    /\ UNCHANGED <<cmd, target, store, store0, id, processed, derived, failedAt, run, prev>>
    /\ UNCHANGED scanVars
    /\ UNCHANGED sessionVars

GetPacketsErr ==
    /\ pc = "get_packets"
    /\ Finish("get_packets")
    /\ UNCHANGED <<cmd, target, store, store0>>
    /\ UNCHANGED rerunVars
    /\ UNCHANGED scanVars
    /\ UNCHANGED sessionVars

\* the loop body without id = packet.id
HandlePacketOk_noadvance ==
    /\ pc = "handle"
    /\ packets # <<>>
    /\ Decodable(Head(packets))
    /\ id' = id
    /\ processed' = Append(processed, Head(packets))
    /\ derived' = Append(derived, Derive(Head(packets)))
    /\ packets' = Tail(packets)
    /\ pc' = (IF Tail(packets) = <<>> THEN "print" ELSE "handle")
    /\ UNCHANGED <<cmd, target, result, store, store0, failedAt, run, prev>>
    /\ UNCHANGED scanVars
    /\ UNCHANGED sessionVars

\* for packet in packets { id = packet.id; whoop.handle_packet(packet).await?; }
HandlePacketOk ==
    /\ pc = "handle"
    /\ packets # <<>>
    /\ Decodable(Head(packets))
    /\ id' = Head(packets).id
    /\ processed' = Append(processed, Head(packets))
    /\ derived' = Append(derived, Derive(Head(packets)))
    /\ packets' = Tail(packets)
    /\ pc' = (IF Tail(packets) = <<>> THEN "print" ELSE "handle")
    /\ UNCHANGED <<cmd, target, result, store, store0, failedAt, run, prev>>
    /\ UNCHANGED scanVars
    /\ UNCHANGED sessionVars

HandlePacketErr ==
    /\ pc = "handle"
    /\ packets # <<>>
    /\ ~Decodable(Head(packets))
    /\ id' = Head(packets).id
    /\ failedAt' = Head(packets).id
    /\ Finish("handle_packet")
    /\ UNCHANGED <<cmd, target, store, store0, packets, processed, derived, run, prev>>
    /\ UNCHANGED scanVars
    /\ UNCHANGED sessionVars

\* println!("{}", id) after a page, then the next get_packets
PrintId ==
    /\ pc = "print"
    /\ pc' = "get_packets"
    /\ UNCHANGED <<cmd, target, result, store, store0>>
    /\ UNCHANGED rerunVars
    /\ UNCHANGED scanVars
    /\ UNCHANGED sessionVars

\* a second invocation that resumes from the cursor the first one reached
ReRunAgain_resume ==
    /\ pc = "done"
    /\ cmd = "ReRun"
    /\ run = 1
    /\ run' = 2
    /\ prev' = [processed |-> processed, derived |-> derived, result |-> result]
    /\ id' = id
    /\ packets' = <<>>
    /\ processed' = <<>>
    /\ derived' = <<>>
    /\ failedAt' = 0
    /\ result' = "none"
    /\ pc' = "start"
    /\ UNCHANGED <<cmd, target, store, store0>>
    /\ UNCHANGED scanVars
    /\ UNCHANGED sessionVars

\* the ReRun command is invoked a second time over the same store, with the
\* packet processor's downstream state reset
ReRunAgain ==
    /\ pc = "done"
    /\ cmd = "ReRun"
    /\ run = 1
    /\ run' = 2
    /\ prev' = [processed |-> processed, derived |-> derived, result |-> result]
    /\ id' = 0
    /\ packets' = <<>>
    /\ processed' = <<>>
    /\ derived' = <<>>
    /\ failedAt' = 0
    /\ result' = "none"
    /\ pc' = "start"
    /\ UNCHANGED <<cmd, target, store, store0>>
    /\ UNCHANGED scanVars
    /\ UNCHANGED sessionVars

(* ---------------------------- specification ---------------------------- *)
Next ==
    \/ Dispatch
    \/ StartScanOk
    \/ StartScanErr
    \/ Poll
    \/ PollErr
    \/ ScanSleep
    \/ NewDevice
    \/ ConnectOk
    \/ ConnectErr
    \/ InitializeOk
    \/ InitializeErr
    \/ SyncStart
    \/ SyncAppend
    \/ SyncOk
    \/ SyncErr
    \/ IsConnectedTrue
    \/ IsConnectedNot
    \/ SendOk
    \/ SendErr
    \/ ReconnectOk
    \/ ReconnectErr
    \/ Backoff
    \/ GetPacketsPage
    \/ GetPacketsEmpty
    \/ GetPacketsErr
    \/ HandlePacketOk
    \/ HandlePacketErr
    \/ PrintId
    \/ ReRunAgain

Spec == Init /\ [][Next]_vars

\* the ReRun task is never suspended for good: every await of its loop
\* (get_packets, handle_packet) completes and the loop goes on
ReplayStep ==
    \/ (cmd = "ReRun" /\ Dispatch)
    \/ GetPacketsPage
    \/ GetPacketsEmpty
    \/ GetPacketsErr
    \/ HandlePacketOk
    \/ HandlePacketErr
    \/ PrintId

FairSpec == Init /\ [][Next]_vars /\ WF_vars(ReplayStep)

TypeOK ==
    /\ cmd \in {"Scan", "DownloadHistory", "ReRun"}
    /\ pc \in {"start", "start_scan", "poll", "scan_sleep", "new_device", "connect",
               "initialize",
               "sync", "streaming", "check", "send", "reconnect", "backoff",
               "get_packets", "handle", "print", "done"}
    /\ R \in 0..MaxR
    /\ id \in 0..MaxStore
    /\ run \in 1..2

(* ---------------------------- properties ------------------------------- *)
Session == cmd = "DownloadHistory"
Replay == cmd = "ReRun"

\* C1: in a DownloadHistory session in which connect and initialize succeeded,
\* the terminate command is eventually sent; as a final-state property: such a
\* session never ends without a send of the terminate command.
C1_TerminateEventuallySent ==
    (Session /\ pc = "done" /\ link.initialize = 1 /\ link.initFail = 0)
        => link.sends >= 1

\* C2: when is_connected reports not-connected on the first R checks and
\* connected thereafter, the terminate loop ends having made exactly R connect
\* attempts, R backoff sleeps and exactly one send of the terminate command.
C2_TerminateRetryCounts ==
    (Session /\ pc = "done" /\ syncResult # "none")
        => /\ link.reconnects = R
           /\ link.sleeps = R
           /\ link.sends = 1

\* the session's result as the terminate loop alone decides it
LoopResult ==
    IF link.delivered = 1 THEN "ok"
    ELSE IF link.sends = 1 THEN "send_command"
    ELSE "reconnect"

\* C3: a failed sync_history is only reported (one error line), the terminate
\* loop is entered afterwards (the session does not end before an
\* is_connected check), and the final result is the one the terminate loop
\* decides, whether sync_history succeeded or failed.
C3_SyncFailureNotFatal ==
    Session =>
        /\ (syncResult = "err" =>
              /\ logged = 1
              /\ pc \in {"check", "send", "reconnect", "backoff", "done"}
              /\ (pc = "done" => link.checks >= 1))
        /\ (syncResult = "ok" => logged = 0)
        /\ ((pc = "done" /\ syncResult # "none") => result = LoopResult)

C3_Witness ==
    /\ Session
    /\ syncResult = "err"
    /\ pc = "done"
    /\ result = "ok"
    /\ link.delivered = 1

\* C4: when the initial connect or initialize fails, the session is over with
\* that error as its result, the failed step was called once, and neither
\* sync_history nor any step of the terminate loop is ever issued.
C4_ConnectInitFailureAborts ==
    (Session /\ (link.connectFail > 0 \/ link.initFail > 0)) =>
        /\ pc = "done"
        /\ result = (IF link.connectFail > 0 THEN "connect" ELSE "initialize")
        /\ link.connect = 1
        /\ link.initialize = link.initFail
        /\ link.connectFail + link.initFail = 1
        /\ link.sync = 0
        /\ link.checks = 0
        /\ link.reconnects = 0
        /\ link.sends = 0
        /\ discoveries = 1

C4_Witness ==
    /\ Session
    /\ link.initFail = 1
    /\ result = "initialize"

\* C5: the peripheral a targeted scan_command returns advertises the whoop
\* service and has exactly the target address, also when the list it was
\* found in holds a peripheral with the target address that lacks the service.
C5_DiscoveryFilter ==
    peripheral # NoPeripheral =>
        /\ WHOOP_SERVICE \in peripheral.services
        /\ peripheral.address = target
        /\ peripheral.properties = "some"

C5_Witness ==
    /\ peripheral # NoPeripheral
    /\ Len(peripherals) = 2
    /\ peripherals[1].address = target
    /\ peripherals[1].properties = "some"
    /\ WHOOP_SERVICE \notin peripherals[1].services
    /\ peripherals[2] = peripheral

\* C6: a replay pass processes the stored packets in store order, each once:
\* what it has processed is always the prefix of the store up to the cursor,
\* so from a cursor c it goes on with exactly the ids above c, ascending
\* across pages, and a pass that completes has processed ids 1..n and ends
\* with the cursor at n.
C6_ReplayAscendingOnce ==
    Replay =>
        /\ Len(processed) <= Len(store)
        /\ processed = SubSeq(store, 1, Len(processed))
        /\ (pc \in {"get_packets", "print"} => id = Len(processed))
        /\ ((pc = "done" /\ result = "ok") =>
              /\ processed = store
              /\ id = Len(store))

C6_Witness ==
    /\ Replay
    /\ run = 1
    /\ pc = "done"
    /\ result = "ok"
    /\ Len(store) = 3
    /\ Len(processed) = 3

\* id of the last packet handle_packet succeeded on, 0 when there is none
LastProcessed == IF processed = <<>> THEN 0 ELSE processed[Len(processed)].id

\* C7: when handle_packet fails on packet k the cursor left by the pass is the
\* id of the last successfully processed packet, never k or later.
C7_CursorOnlyAfterSuccess ==
    (Replay /\ failedAt # 0) =>
        /\ id = LastProcessed
        /\ id < failedAt

Captured ==
    [i \in 1..Len(received) |-> [id |-> Len(store0) + i, payload |-> received[i]]]

\* C10: during a DownloadHistory session the store is what it was at the
\* start followed by the packets received so far, in arrival order with
\* consecutive ids; this stays so after sync_history failed, through the
\* terminate loop and at the end of the session.
C10_AppendedPacketsKept ==
    Session => store = store0 \o Captured

C10_Witness ==
    /\ Session
    /\ syncResult = "err"
    /\ Len(received) = 3
    /\ link.reconnects = 1
    /\ pc = "done"
    /\ result = "ok"
    /\ store = store0 \o Captured

\* C11: a reconnect that fails inside the terminate loop is retried after
\* the backoff instead of ending the session, so a session that entered the
\* loop ends only by a send of the terminate command.
C11_ReconnectErrorRetried ==
    Session =>
        /\ (link.reconnectFail > 0 =>
              /\ result # "reconnect"
              /\ (pc = "done" => link.sleeps >= link.reconnectFail))
        /\ ((pc = "done" /\ link.checks >= 1) => link.sends = 1)

\* the addresses in a list of printed observations
Emitted(out) == {out[i] : i \in 1..Len(out)}

\* C12: in listing mode a device printed by one poll is not printed again by
\* the next poll although it is still listed.
C12_EmittedOncePerDevice ==
    [][(cmd = "Scan" /\ pc = "poll" /\ pc' = "scan_sleep")
          => Emitted(printed) \cap Emitted(printed') = {}]_vars

\* control is outside scan_command after having been in it
LeftDiscovery ==
    /\ cmd # "ReRun"
    /\ pc \notin {"start", "start_scan", "poll", "scan_sleep"}

\* C13: once control has left discovery (by a match or by an error) the
\* adapter is not scanning.
C13_ScanStoppedOnExit ==
    LeftDiscovery => ~scanning

\* a call whose failure is not recovered has failed
Failed ==
    \/ result \in {"start_scan", "peripherals", "properties", "get_packets"}
    \/ link.connectFail > 0
    \/ link.initFail > 0
    \/ link.reconnectFail > 0
    \/ link.sends > link.delivered
    \/ failedAt # 0

\* C14: an operation that has finished ended with success exactly when no
\* call of discovery, connect, initialize, terminate delivery or replay
\* processing failed; any such failure ends it with an error; a successful
\* DownloadHistory has delivered the terminate command and a successful
\* ReRun has processed every stored packet.
C14_ExitStatus ==
    /\ (pc = "done" => (result = "ok" <=> ~Failed))
    /\ (Failed => (pc = "done" /\ IsErr(result)))
    /\ (result = "ok" =>
          /\ pc = "done"
          /\ cmd # "Scan"
          /\ (Session => (link.delivered = 1 /\ peripheral # NoPeripheral))
          /\ (Replay => processed = store))

C14_Witness ==
    /\ Session
    /\ pc = "done"
    /\ result = "ok"
    /\ syncResult = "err"
    /\ link.disc >= 1
    /\ link.delivered = 1

\* C15: connect needs the discovered peripheral, initialize a successful
\* connect, sync_history a successful initialize, and every step of the
\* terminate loop (the send included) a sync_history that has returned.
C15_StepOrder ==
    Session =>
        /\ (link.connect > 0 => (peripheral # NoPeripheral /\ discoveries = 1))
        /\ (link.initialize > 0 => (link.connect = 1 /\ link.connectFail = 0))
        /\ (link.sync > 0 => (link.initialize = 1 /\ link.initFail = 0))
        /\ ((link.checks > 0 \/ link.reconnects > 0 \/ link.sends > 0)
              => (link.sync = 1 /\ syncResult # "none"))

C15_Witness ==
    /\ Session
    /\ link.connect = 1
    /\ link.initialize = 1
    /\ link.sync = 1
    /\ Len(received) >= 1
    /\ link.sends = 1
    /\ pc = "done"

\* C16: the replay loop terminates: every ReRun reaches its end, each
\* non-empty page holds only ids above the cursor and leaves the cursor
\* strictly higher, and the first empty page ends the pass.
C16_ReplayTerminates ==
    /\ [](Replay => <>(pc = "done"))
    /\ [][Replay =>
            /\ ((pc = "get_packets" /\ pc' = "handle") =>
                  /\ packets' # <<>>
                  /\ \A i \in 1..Len(packets') : packets'[i].id > id)
            /\ ((pc = "handle" /\ pc' \in {"handle", "print"}) => id' > id)
            /\ ((pc = "print" /\ pc' = "get_packets") => id = Len(processed))
            /\ ((pc = "get_packets" /\ ReadFrom(store, id) = <<>>) => pc' = "done")]_vars

C16_Witness ==
    /\ Replay
    /\ pc = "done"
    /\ result = "ok"
    /\ Len(store) > PageSize
    /\ id = Len(store)

\* a listed peripheral that advertises the service and has the target address
Matches(p) ==
    /\ p.properties = "some"
    /\ WHOOP_SERVICE \in p.services
    /\ p.address = target
MatchAt(ps) == {i \in 1..Len(ps) : Matches(ps[i])}
ErrAt(ps) == {i \in 1..Len(ps) : ps[i].properties = "err"}
Least(S) == CHOOSE x \in S : \A y \in S : x <= y
\* a match stands in the list before any entry whose properties() fails
MatchReached(ps) ==
    /\ MatchAt(ps) # {}
    /\ (ErrAt(ps) = {} \/ Least(MatchAt(ps)) < Least(ErrAt(ps)))

\* C17 as stated: a targeted poll whose list holds a service-advertising
\* device with the target address returns that device, and only such a poll
\* returns; with no target a poll never returns a handle and ends only by a
\* transport error.
C17_ReturnsAtFirstMatchingPoll ==
    [][pc = "poll" =>
        /\ (target # NoTarget =>
              /\ (MatchAt(peripherals') # {} =>
                    (pc' = "new_device" /\ Matches(peripheral')))
              /\ (pc' = "new_device" => MatchAt(peripherals') # {}))
        /\ (target = NoTarget =>
              /\ pc' # "new_device"
              /\ (pc' = "done" => result' \in {"peripherals", "properties"}))]_vars

\* C17, amended: a poll ends discovery with an error when peripherals() fails
\* or a properties() call fails on an entry walked before any match;
\* otherwise a targeted poll returns exactly when its list holds a match,
\* returning the first match in list order, and goes on to sleep and poll
\* again when it holds none; with no target a poll never returns a handle
\* and ends only by a transport error.
C17_ReturnsFirstReachedMatch ==
    [][pc = "poll" =>
        /\ (pc' = "done" => result' \in {"peripherals", "properties"})
        /\ (result' = "properties" <=>
              (ErrAt(peripherals') # {} /\ ~MatchReached(peripherals')))
        /\ (target # NoTarget =>
              /\ (pc' = "new_device" <=> MatchReached(peripherals'))
              /\ (MatchReached(peripherals') =>
                    peripheral' = peripherals'[Least(MatchAt(peripherals'))])
              /\ (pc' = "scan_sleep" <=>
                    (MatchAt(peripherals') = {} /\ ErrAt(peripherals') = {}
                        /\ pc' # "done")))
        /\ (target = NoTarget =>
              /\ pc' \in {"scan_sleep", "done"}
              /\ peripheral' = NoPeripheral)]_vars

C17_Witness ==
    /\ Session
    /\ pc = "new_device"
    /\ Len(peripherals) = 2
    /\ peripherals[1].properties = "none"
    /\ peripherals[1].address = target
    /\ Matches(peripherals[2])
    /\ peripheral = peripherals[2]

\* C18: neither retry loop spins. In the terminate loop the sleeps taken
\* are one per is_connected check that was followed by another check; in
\* scan_command a poll that neither returns nor fails goes to the sleep, and
\* a poll is only entered from start_scan or from the sleep.
C18_SleepBetweenAttempts ==
    /\ [](Session =>
            link.sleeps = (IF link.checks = 0 \/ pc = "check"
                           THEN link.checks ELSE link.checks - 1))
    /\ [][/\ ((pc = "poll" /\ pc' \notin {"new_device", "done"}) => pc' = "scan_sleep")
          /\ (pc = "scan_sleep" => pc' = "poll")
          /\ (pc' = "poll" => pc \in {"start_scan", "scan_sleep"})
          /\ (pc' = "check" => pc \in {"streaming", "backoff"})
          /\ (pc = "reconnect" => pc' \in {"backoff", "done"})]_vars

C18_Witness ==
    /\ Session
    /\ pc = "send"
    /\ link.checks = 3
    /\ link.sleeps = 2
    /\ link.reconnects = 2

\* C19: at most one send of the terminate command is attempted; once it was
\* attempted the session is over, with Ok if the send succeeded and with the
\* send's error if it failed, and nothing is retried.
C19_SingleSendAttempt ==
    Session =>
        /\ link.sends <= 1
        /\ (link.sends = 1 =>
              /\ pc = "done"
              /\ lastCheck = "true"
              /\ result = (IF link.delivered = 1 THEN "ok" ELSE "send_command")
              /\ link.reconnects = link.disc
              /\ link.checks = link.disc + 1)

C19_Witness ==
    /\ Session
    /\ link.sends = 1
    /\ link.delivered = 0
    /\ result = "send_command"
    /\ link.reconnects >= 1

\* C20: an is_connected that returns an error is handled like one that
\* returns false: the step after it is the reconnect, it sends nothing and
\* does not end the session; a session that ends while the last check was an
\* error ended by the reconnect's failure.
C20_CheckErrorLikeDisconnected ==
    /\ [](Session =>
            (lastCheck \in {"false", "err"} =>
                /\ pc \in {"reconnect", "backoff", "check", "done"}
                /\ link.sends = 0
                /\ (pc = "done" => result = "reconnect")
                /\ (pc \in {"backoff", "check"} => link.reconnects = link.disc)))
    /\ [][(link'.checks > link.checks /\ lastCheck' \in {"false", "err"}) =>
            /\ pc' = "reconnect"
            /\ result' = "none"
            /\ link'.sends = link.sends
            /\ link'.reconnects = link.reconnects]_vars

C20_Witness ==
    /\ Session
    /\ lastCheck = "err"
    /\ pc = "backoff"
    /\ link.reconnects = 1

====
